---------------------------- MODULE Spec2Model ----------------------------
(***************************************************************************)
(* A model of linear-tracker: the Linear webhook verifier                  *)
(* (src/utils/webhook-security.ts), the Telegram message formatter         *)
(* (src/utils/message-formatter.ts, the draft at lines 406-614) and the    *)
(* POST /webhook/linear handler (src/index.ts).                            *)
(*                                                                         *)
(* Text is a sequence of one-character strings.  A JavaScript value that   *)
(* is not a string where a string is expected (undefined, a missing        *)
(* property) is the distinguished sequence Undefined, which no text        *)
(* equals because its only element is longer than one character.  Bytes    *)
(* are sequences of numbers 0..255, with NoSecret and NotBytes for values  *)
(* that are no byte sequence; a number is a one-element sequence and a     *)
(* value that is not a number the empty one.                               *)
(* A call that may throw yields a record [threw, value].                   *)
(***************************************************************************)
EXTENDS Integers, Sequences, FiniteSets, TLC

VARIABLES
    sig,        \* one call of verifyLinearSignature: its arguments and result
    fresh,      \* one call of verifyWebhookTimestamp: timestamp, clock, result
    fmt,        \* one call of formatLinearWebhookMessage: payload and result
    clock,      \* Date.now() of the server process
    reqs,       \* the requests of POST /webhook/linear, by request id
    telegram    \* the sendMessage calls issued so far and how each ended

vars == <<sig, fresh, fmt, clock, reqs, telegram>>

Undefined == <<"undefined">>

IsString(x) == x # Undefined

Idle == [pc |-> "idle"]

(***************************************************************************)
(* Results of calls that may throw.                                        *)
(***************************************************************************)
Return(v) == [threw |-> FALSE, value |-> v]

Throw(e) == [threw |-> TRUE, value |-> e]

Min(a, b) == IF a < b THEN a ELSE b

Abs(x) == IF x < 0 THEN -x ELSE x

(***************************************************************************)
(* node:crypto and Buffer, as verifyLinearSignature uses them.             *)
(***************************************************************************)

\* SHA-256 digests are 32 bytes long.
DigestLen == 32

HexDigits == <<"0", "1", "2", "3", "4", "5", "6", "7",
               "8", "9", "a", "b", "c", "d", "e", "f">>

UpperHexDigits == <<"A", "B", "C", "D", "E", "F">>

\* The value of each hexadecimal digit, in either case.
HexValues ==
    [c \in {HexDigits[i] : i \in 1..16} \cup {UpperHexDigits[i] : i \in 1..6} |->
        IF \E i \in 1..16 : HexDigits[i] = c
        THEN (CHOOSE i \in 1..16 : HexDigits[i] = c) - 1
        ELSE (CHOOSE i \in 1..6 : UpperHexDigits[i] = c) + 9]

\* The value of one hexadecimal digit, -1 for any other character.
HexVal(c) == IF c \in DOMAIN HexValues THEN HexValues[c] ELSE -1

\* buffer.toString('hex'): two lower-case digits per byte.
ToHex(bytes) ==
    [i \in 1..(2 * Len(bytes)) |->
        LET b == bytes[(i + 1) \div 2]
        IN  IF i % 2 = 1 THEN HexDigits[(b \div 16) + 1]
                         ELSE HexDigits[(b % 16) + 1]]

\* Buffer.from(text, 'hex'): decodes pairs of digits and stops, without an
\* error, at the first pair that is not two hexadecimal digits; a trailing
\* unpaired character is dropped.
BufferFromHex(text) ==
    LET pairs == Len(text) \div 2
        good(i) == HexVal(text[2 * i - 1]) >= 0 /\ HexVal(text[2 * i]) >= 0
        n == IF \A i \in 1..pairs : good(i)
             THEN pairs
             ELSE (CHOOSE i \in 1..pairs :
                       ~good(i) /\ \A j \in 1..(i - 1) : good(j)) - 1
    IN  [i \in 1..n |-> 16 * HexVal(text[2 * i - 1]) + HexVal(text[2 * i])]

\* The position of a byte sequence in an enumeration of byte sequences
\* (bijective numeration to base 8: the bodies and keys of the model are
\* short sequences of bytes of at most 7).
RECURSIVE SeqNum(_)
SeqNum(s) == IF s = <<>> THEN 0 ELSE (Head(s) + 1) + 8 * SeqNum(Tail(s))

\* createHmac('sha256', key).update(data).digest(): HMAC-SHA256 is modelled
\* as an injective function of (key, data) into DigestLen bytes: the three
\* base-256 digits of the pair's number, repeated along the digest.
HmacSha256(key, data) ==
    LET n == SeqNum(key) * 4096 + SeqNum(data)
        digit(k) == IF k = 0 THEN n % 256
                    ELSE IF k = 1 THEN (n \div 256) % 256
                    ELSE (n \div 65536) % 256
    IN  [i \in 1..DigestLen |-> digit((i - 1) % 3)]

\* A rawBody that is neither a Buffer nor a string (express leaves req.body
\* an object when the content type is not application/json).
NotBytes == <<-2>>

\* A secret that is undefined.
NoSecret == <<-1>>

\* crypto.createHmac throws a TypeError for a key that is not a string or
\* a buffer, hmac.update for data that is not a string or a buffer.
CreateHmacDigest(secret, rawBody) ==
    IF secret = NoSecret THEN Throw("ERR_INVALID_ARG_TYPE")
    ELSE IF rawBody = NotBytes THEN Throw("ERR_INVALID_ARG_TYPE")
    ELSE Return(HmacSha256(secret, rawBody))

\* A comparison that only looks at the lengths.
TimingSafeEqualLengthOnly(a, b) ==
    IF Len(a) # Len(b) THEN Throw("ERR_CRYPTO_TIMING_SAFE_EQUAL_LENGTH")
    ELSE Return(TRUE)

\* crypto.timingSafeEqual throws a RangeError when the byte lengths differ.
TimingSafeEqual(a, b) ==
    IF Len(a) # Len(b) THEN Throw("ERR_CRYPTO_TIMING_SAFE_EQUAL_LENGTH")
    ELSE Return(a = b)

(***************************************************************************)
(* src/utils/webhook-security.ts                                           *)
(***************************************************************************)

\* The try block with the header read as UTF-8 text instead of hex.
VerifyTryNoHexDecode(headerSignature, rawBody, secret) ==
    LET computedSignature == CreateHmacDigest(secret, rawBody)
    IN  IF computedSignature.threw THEN computedSignature
        ELSE IF Len(computedSignature.value) # Len(headerSignature)
        THEN Throw("ERR_CRYPTO_TIMING_SAFE_EQUAL_LENGTH")
        ELSE Return(FALSE)

\* The try block of verifyLinearSignature.
VerifyTry(headerSignature, rawBody, secret) ==
    LET headerSignatureBuffer == BufferFromHex(headerSignature)
        computedSignature == CreateHmacDigest(secret, rawBody)
    IN  IF computedSignature.threw THEN computedSignature
        ELSE TimingSafeEqual(computedSignature.value, headerSignatureBuffer)

\* The try block with no catch around it.
VerifyUncaught(headerSignature, rawBody, secret) ==
    IF ~IsString(headerSignature) THEN Return(FALSE)
    ELSE VerifyTry(headerSignature, rawBody, secret)

verifyLinearSignature(headerSignature, rawBody, secret) ==
    IF ~IsString(headerSignature) THEN Return(FALSE)
    ELSE LET t == VerifyTry(headerSignature, rawBody, secret)
         IN  IF t.threw THEN Return(FALSE) ELSE t


Num(n) == <<n>>

NotANumber == <<>>

\* The freshness window: 60 * 1000 milliseconds.
MaxAgeMs == 60000

\* verifyWebhookTimestamp with Date.now() = currentTime.  A webhookTimestamp
\* that is not a number makes the difference NaN, and NaN <= maxAge is false.
IsWithinMaxAge(timeDifference, maxAge) == timeDifference <= maxAge

\* The check without Math.abs.
VerifyTimestampNoAbs(webhookTimestamp, currentTime) ==
    IF webhookTimestamp = NotANumber THEN FALSE
    ELSE IsWithinMaxAge(currentTime - webhookTimestamp[1], MaxAgeMs)

verifyWebhookTimestamp(webhookTimestamp, currentTime) ==
    IF webhookTimestamp = NotANumber THEN FALSE
    ELSE LET timeDifference == Abs(currentTime - webhookTimestamp[1])
             maxAge == MaxAgeMs
         IN  IsWithinMaxAge(timeDifference, maxAge)

(***************************************************************************)
(* Inputs of the verifier.                                                 *)
(***************************************************************************)

\* Bodies are sequences of at most MaxBodyLen bytes, each 0 or 1.
MaxBodyLen == 2

RECURSIVE SeqsUpTo(_, _)
SeqsUpTo(S, n) ==
    IF n = 0 THEN {<<>>}
    ELSE LET shorter == SeqsUpTo(S, n - 1)
         IN  shorter \cup {Append(s, x) : s \in shorter, x \in S}

VerifyBodies == SeqsUpTo({0, 1}, MaxBodyLen)

Secrets == {<<1>>, <<2>>}

\* Two bodies that differ in exactly one bit of exactly one byte.
OneBitApart(a, b) ==
    /\ Len(a) = Len(b)
    /\ \E i \in 1..Len(a) :
          /\ \A j \in 1..Len(a) : j # i => a[j] = b[j]
          /\ Abs(a[i] - b[i]) \in {1, 2, 4, 8, 16, 32, 64, 128}
          /\ LET lo == Min(a[i], b[i])
                 d == Abs(a[i] - b[i])
             IN  (lo \div d) % 2 = 0

\* The signature Linear sends for a body: hex(HMAC-SHA256(secret, body)).
SignatureFor(secret, body) == ToHex(HmacSha256(secret, body))

ReplaceAt(s, i, c) == [s EXCEPT ![i] = c]

UpperCase(text) ==
    [i \in 1..Len(text) |->
        IF HexVal(text[i]) >= 10 /\ \E k \in 11..16 : HexDigits[k] = text[i]
        THEN UpperHexDigits[HexVal(text[i]) - 9] ELSE text[i]]

\* Header values built from a signature: itself, in upper case, with
\* characters appended or dropped, and with one character replaced.
SamplePositions == {1, 2, DigestLen, 2 * DigestLen - 1, 2 * DigestLen}

HeaderVariants(h) ==
    {h, UpperCase(h), <<>>, <<"z">>,
     h \o <<"0">>, h \o <<"z">>, h \o <<"z", "z">>, h \o <<"0", "0">>,
     h \o <<"0", "z">>, <<" ">> \o h,
     SubSeq(h, 1, Len(h) - 1), SubSeq(h, 1, Len(h) - 2)}
    \cup {ReplaceAt(h, i, "z") : i \in SamplePositions}
    \cup {ReplaceAt(h, i, IF h[i] = "0" THEN "1" ELSE "0") : i \in SamplePositions}

VerifyHeaders ==
    {Undefined} \cup
    UNION {HeaderVariants(SignatureFor(s, b)) : s \in Secrets, b \in VerifyBodies}

(***************************************************************************)
(* One call of verifyLinearSignature on arbitrary arguments.               *)
(***************************************************************************)
InitVerify ==
    /\ sig \in [pc : {"call"},
                header : VerifyHeaders,
                body : VerifyBodies \cup {NotBytes},
                secret : Secrets \cup {NoSecret},
                result : {Return(FALSE)}]
    /\ fresh = Idle
    /\ fmt = Idle
    /\ clock = 0
    /\ reqs = <<>>
    /\ telegram = {}

CallVerify ==
    /\ sig.pc = "call"
    /\ sig' = [sig EXCEPT !.pc = "done",
                          !.result = verifyLinearSignature(sig.header, sig.body, sig.secret)]
    /\ UNCHANGED <<fresh, fmt, clock, reqs, telegram>>

NextVerify == CallVerify

SpecVerify == InitVerify /\ [][NextVerify]_vars

\* Every character is a hexadecimal digit and they pair up.
WellFormedHex(text) ==
    /\ Len(text) % 2 = 0
    /\ \A i \in 1..Len(text) : HexVal(text[i]) >= 0

\* C2: verifyLinearSignature never throws: for every header (undefined or a
\* string), every body (bytes or not) and every secret (a string or
\* undefined) the call completes and its result is a boolean.
C2_VerifyNeverThrows ==
    sig.pc = "done" => /\ ~sig.result.threw
                       /\ sig.result.value \in BOOLEAN

\* A call whose try block threw (no secret, or a body that is no buffer).
C2_Witness ==
    /\ sig.pc = "done"
    /\ sig.header # Undefined
    /\ sig.secret = NoSecret \/ sig.body = NotBytes
    /\ VerifyTry(sig.header, sig.body, sig.secret).threw

\* C3: verifyLinearSignature returns false for every header that is missing,
\* is not well-formed hexadecimal (a character that is no hex digit anywhere,
\* or an odd length) or does not decode to exactly DigestLen bytes.
C3_MalformedHeaderRejected ==
    (/\ sig.pc = "done"
     /\ \/ sig.header = Undefined
        \/ ~WellFormedHex(sig.header)
        \/ Len(sig.header) # 2 * DigestLen)
    => sig.result = Return(FALSE)

\* C4: verifyLinearSignature(hex(HMAC-SHA256(S, B)), B, S) is true for all
\* byte sequences B and all secrets S.
C4_ValidSignatureAccepted ==
    (/\ sig.pc = "done"
     /\ sig.secret \in Secrets
     /\ sig.body \in VerifyBodies
     /\ sig.header = SignatureFor(sig.secret, sig.body))
    => sig.result = Return(TRUE)

C4_Witness ==
    /\ sig.pc = "done"
    /\ sig.secret \in Secrets
    /\ sig.body \in VerifyBodies
    /\ Len(sig.body) = MaxBodyLen
    /\ sig.header = SignatureFor(sig.secret, sig.body)
    /\ sig.result.value = TRUE

\* C5: the signature computed for a body B does not verify any other body
\* B', in particular none that differs from B in a single bit.
C5_TamperedBodyRejected ==
    (/\ sig.pc = "done"
     /\ sig.secret \in Secrets
     /\ sig.body \in VerifyBodies
     /\ \E b \in VerifyBodies :
           b # sig.body /\ sig.header = SignatureFor(sig.secret, b))
    => sig.result = Return(FALSE)

\* The body differs in one bit from the one the signature was made for.
C5_Witness ==
    /\ sig.pc = "done"
    /\ sig.secret \in Secrets
    /\ sig.body \in VerifyBodies
    /\ \E b \in VerifyBodies :
           OneBitApart(b, sig.body) /\ sig.header = SignatureFor(sig.secret, b)
    /\ sig.result.value = FALSE

(***************************************************************************)
(* One call of verifyWebhookTimestamp at an arbitrary clock reading.       *)
(***************************************************************************)

\* Timestamps and clock readings lie within one millisecond of a multiple
\* of the window, up to MaxWindows windows.
MaxWindows == 4

Times ==
    {t \in UNION {{k * MaxAgeMs - 1, k * MaxAgeMs, k * MaxAgeMs + 1} :
                     k \in 0..MaxWindows} : t >= 0}

InitFresh ==
    /\ fresh \in [pc : {"call"},
                  ts : {Num(t) : t \in Times} \cup {NotANumber},
                  now : Times,
                  result : {FALSE}]
    /\ sig = Idle
    /\ fmt = Idle
    /\ clock = 0
    /\ reqs = <<>>
    /\ telegram = {}

CallFresh ==
    /\ fresh.pc = "call"
    /\ fresh' = [fresh EXCEPT !.pc = "done",
                              !.result = verifyWebhookTimestamp(fresh.ts, fresh.now)]
    /\ UNCHANGED <<sig, fmt, clock, reqs, telegram>>

NextFresh == CallFresh

SpecFresh == InitFresh /\ [][NextFresh]_vars

\* C6: a timestamp T is accepted exactly when |now - T| <= 60000 ms, for past
\* and future alike: accepted at now = T, T + 60000 and T - 60000, rejected
\* at now = T + 60001 and T - 60001.
C6_FreshnessWindow ==
    (fresh.pc = "done" /\ fresh.ts # NotANumber) =>
        LET T == fresh.ts[1]
            now == fresh.now
        IN  /\ fresh.result = (now - T <= 60000 /\ T - now <= 60000)
            /\ now \in {T, T + 60000, T - 60000} => fresh.result = TRUE
            /\ now \in {T + 60001, T - 60001} => fresh.result = FALSE

\* A timestamp 60001 ms in the future of the clock was rejected.
C6_Witness ==
    /\ fresh.pc = "done"
    /\ fresh.ts # NotANumber
    /\ fresh.now = fresh.ts[1] - 60001
    /\ fresh.result = FALSE


(***************************************************************************)
(* src/utils/message-formatter.ts (lines 406-614).  A message is a         *)
(* sequence of segments, each the text one piece of a template literal     *)
(* contributes: "lit" for the template's own text, "field" for a value     *)
(* passed through escapeMarkdown, "url" for the link target and "raw" for  *)
(* a value interpolated as it is.  part names the piece.  An emoji is one  *)
(* character, written as its name between colons, and so is the backtick.  *)
(***************************************************************************)
Seg(kind, part, text) == [kind |-> kind, part |-> part, text |-> text]

RECURSIVE Flatten(_)
Flatten(segs) ==
    IF segs = <<>> THEN <<>> ELSE Head(segs).text \o Flatten(Tail(segs))

\* The characters of the class [_*\[\]()~(backtick)>#+=|{}.!-].
EscapedChars ==
    {"_", "*", "[", "]", "(", ")", "~", ":backtick:", ">", "#", "+", "=", "|", "{",
     "}", ".", "!", "-"}

\* text.replace(/[...]/g, '\\$&'): a backslash before every character of
\* the class.  Long texts are split in halves.
RECURSIVE escapeMarkdown(_)
escapeMarkdown(text) ==
    IF Len(text) = 0 THEN <<>>
    ELSE IF Len(text) = 1
    THEN IF text[1] \in EscapedChars THEN <<"\\", text[1]>> ELSE <<text[1]>>
    ELSE LET m == Len(text) \div 2
         IN  escapeMarkdown(SubSeq(text, 1, m))
                 \o escapeMarkdown(SubSeq(text, m + 1, Len(text)))

\* A template literal prints a missing value as "undefined".
TemplateText(text) == IF IsString(text) THEN text ELSE <<"u", "n", "d", "e", "f", "i", "n", "e", "d">>

getPriorityLabel(priority) ==
    CASE priority = 1 -> <<"U", "r", "g", "e", "n", "t">>
      [] priority = 2 -> <<"H", "i", "g", "h">>
      [] priority = 3 -> <<"M", "e", "d", "i", "u", "m">>
      [] priority = 4 -> <<"L", "o", "w">>
      [] OTHER -> <<"N", "o", " ", "p", "r", "i", "o", "r", "i", "t", "y">>

\* Decimal digits of a natural number.
Digits == <<"0", "1", "2", "3", "4", "5", "6", "7", "8", "9">>

RECURSIVE NumText(_)
NumText(n) ==
    IF n < 10 THEN <<Digits[n + 1]>>
    ELSE NumText(n \div 10) \o <<Digits[(n % 10) + 1]>>

MonthShort ==
    <<<<"J", "a", "n">>, <<"F", "e", "b">>, <<"M", "a", "r">>, <<"A", "p", "r">>, <<"M", "a", "y">>, <<"J", "u", "n">>,
      <<"J", "u", "l">>, <<"A", "u", "g">>, <<"S", "e", "p">>, <<"O", "c", "t">>, <<"N", "o", "v">>, <<"D", "e", "c">>>>

IsLeapYear(y) == (y % 4 = 0 /\ y % 100 # 0) \/ y % 400 = 0

DaysInMonth(y, m) ==
    IF m = 2 THEN (IF IsLeapYear(y) THEN 29 ELSE 28)
    ELSE IF m \in {4, 6, 9, 11} THEN 30 ELSE 31

PrevDay(date) ==
    IF date.d > 1 THEN [date EXCEPT !.d = date.d - 1]
    ELSE IF date.m > 1
    THEN [y |-> date.y, m |-> date.m - 1, d |-> DaysInMonth(date.y, date.m - 1)]
    ELSE [y |-> date.y - 1, m |-> 12, d |-> 31]

\* new Date('YYYY-MM-DD') is midnight UTC of that day; getDate, getFullYear
\* and toLocaleString read it in the host's time zone, tz minutes east of
\* UTC (|tz| < 24 h): west of UTC the local day is the day before.
LocalDate(date, tz) == IF tz < 0 THEN PrevDay(date) ELSE date

formatDate(dateString, tz) ==
    LET date == LocalDate(dateString, tz)
        month == MonthShort[date.m]
        day == date.d
        year == date.y
    IN  month \o <<" ">> \o NumText(day) \o <<",", " ">> \o NumText(year)

\* A text as long as the limit is cut too.
TruncateAtLimit(text, limit, marker) ==
    IF Len(text) >= limit THEN SubSeq(text, 1, limit) \o marker ELSE text

\* substring(0, limit) + marker when the text is longer than limit.
Truncate(text, limit, marker) ==
    IF Len(text) > limit THEN SubSeq(text, 1, limit) \o marker ELSE text

DescriptionLimit == 300

CommentLimit == 200

IssueEllipsis == <<".", ".", ".">>

CommentEllipsis == <<"\\", ".", "\\", ".", "\\", ".">>

\* The description paragraph of formatIssueMessage, escaped.
IssueDescriptionText(description) ==
    escapeMarkdown(Truncate(description, DescriptionLimit, IssueEllipsis))

\* The quoted body of formatCommentMessage, escaped.
CommentBodyText(body) ==
    escapeMarkdown(Truncate(body, CommentLimit, CommentEllipsis))

Create == <<"c", "r", "e", "a", "t", "e">>

Update == <<"u", "p", "d", "a", "t", "e">>

Remove == <<"r", "e", "m", "o", "v", "e">>

IssueType == <<"I", "s", "s", "u", "e">>

CommentType == <<"C", "o", "m", "m", "e", "n", "t">>

ProjectType == <<"P", "r", "o", "j", "e", "c", "t">>

\* A value is truthy when it is a string that is not empty.
Truthy(text) == IsString(text) /\ text # <<>>

\* issue.creator?.name || payload.actor.name; Throw when payload.actor is
\* missing and read.
CreatorName(payload) ==
    LET issue == payload.data
    IN  IF issue.creator.present /\ Truthy(issue.creator.name)
        THEN Return(issue.creator.name)
        ELSE IF ~payload.actor.present THEN Throw("TypeError")
        ELSE Return(payload.actor.name)

\* The status transition is rendered: an update whose updatedFrom has a
\* state with a name.
HasStateKey(payload) ==
    /\ payload.action = Update
    /\ payload.updatedFrom.present
    /\ payload.updatedFrom.hasState

HasPreviousStatus(payload) ==
    /\ payload.updatedFrom.state.present
    /\ Truthy(payload.updatedFrom.state.name)

\* The inputs on which formatIssueMessage throws a TypeError.
IssueThrows(payload) ==
    LET issue == payload.data
    IN  \/ ~issue.present
        \/ ~IsString(issue.title)
        \/ CreatorName(payload).threw
        \/ ~IsString(CreatorName(payload).value)
        \/ issue.parent.present /\ ~IsString(issue.parent.title)
        \/ /\ issue.state.present
           /\ ~IsString(issue.state.name)
           /\ HasStateKey(payload) => HasPreviousStatus(payload)
        \/ issue.assignee.present /\ ~IsString(issue.assignee.name)

\* The sub-issue header for every action of an issue with a parent.
IssueActionTextParentAnyAction(payload) ==
    LET issue == payload.data
    IN  IF issue.parent.present THEN <<":link:", " ", "N", "e", "w", " ", "s", "u", "b", "-", "i", "s", "s", "u", "e">>
        ELSE IF payload.action = Create THEN <<":dart:", " ", "N", "e", "w", " ", "i", "s", "s", "u", "e">>
        ELSE IF payload.action = Update THEN <<":arrows:", " ", "I", "s", "s", "u", "e", " ", "u", "p", "d", "a", "t", "e", "d">>
        ELSE IF payload.action = Remove THEN <<":wastebasket:", " ", "I", "s", "s", "u", "e", " ", "r", "e", "m", "o", "v", "e", "d">>
        ELSE <<>>

IssueActionText(payload) ==
    LET issue == payload.data
    IN  IF payload.action = Create
        THEN (IF issue.parent.present THEN <<":link:", " ", "N", "e", "w", " ", "s", "u", "b", "-", "i", "s", "s", "u", "e">>
                                      ELSE <<":dart:", " ", "N", "e", "w", " ", "i", "s", "s", "u", "e">>)
        ELSE IF payload.action = Update THEN <<":arrows:", " ", "I", "s", "s", "u", "e", " ", "u", "p", "d", "a", "t", "e", "d">>
        ELSE IF payload.action = Remove THEN <<":wastebasket:", " ", "I", "s", "s", "u", "e", " ", "r", "e", "m", "o", "v", "e", "d">>
        ELSE <<>>

\* The metadata fragments in the order they are pushed.
IssuePriorityFragment(issue) ==
    IF issue.priority # NotANumber /\ issue.priority[1] # 0 /\ issue.priority[1] > 0
    THEN << <<Seg("lit", "priority", <<"P", "r", "i", "o", "r", "i", "t", "y", ":", " ">>),
              Seg("field", "priority",
                  escapeMarkdown(getPriorityLabel(issue.priority[1])))>> >>
    ELSE <<>>

IssueDueFragment(issue, tz) ==
    IF issue.dueDate # <<>>
    THEN << <<Seg("lit", "due", <<"D", "u", "e", ":", " ">>),
              Seg("field", "due", escapeMarkdown(formatDate(issue.dueDate[1], tz)))>> >>
    ELSE <<>>

IssueStatusFragment(payload) ==
    LET issue == payload.data
        currentStatus == issue.state.name
    IN  IF ~issue.state.present THEN <<>>
        ELSE IF HasStateKey(payload)
        THEN IF HasPreviousStatus(payload)
             THEN << <<Seg("lit", "status", <<"\\", "[">>),
                       Seg("field", "previous",
                           escapeMarkdown(payload.updatedFrom.state.name)),
                       Seg("lit", "status", <<"\\", "]", " ", "\\", "-", "\\", ">", " ", "\\", "[">>),
                       Seg("field", "status", escapeMarkdown(currentStatus)),
                       Seg("lit", "status", <<"\\", "]">>)>> >>
             ELSE <<>>
        ELSE << <<Seg("field", "status", escapeMarkdown(currentStatus))>> >>

\* metadata.join(' • '), as segments.
RECURSIVE JoinFragments(_)
JoinFragments(fragments) ==
    IF fragments = <<>> THEN <<>>
    ELSE IF Len(fragments) = 1 THEN fragments[1]
    ELSE fragments[1] \o <<Seg("lit", "separator", <<" ", ":bullet:", " ">>)>>
             \o JoinFragments(Tail(fragments))

\* The due date pushed before the priority.
IssueMetadataDueFirst(payload, tz) ==
    IssueDueFragment(payload.data, tz) \o IssuePriorityFragment(payload.data)
        \o IssueStatusFragment(payload)

IssueMetadata(payload, tz) ==
    IssuePriorityFragment(payload.data) \o IssueDueFragment(payload.data, tz)
        \o IssueStatusFragment(payload)

IssueMessage(payload, tz) ==
    LET issue == payload.data
        metadata == IssueMetadata(payload, tz)
    IN  <<Seg("lit", "header", IssueActionText(payload) \o <<"\n">>),
          Seg("lit", "title", <<"[">>),
          Seg("field", "title", escapeMarkdown(issue.title)),
          Seg("lit", "title", <<"]", "(">>),
          Seg("url", "title", TemplateText(issue.url)),
          Seg("lit", "title", <<")", " ", "\\", "-", " ">>),
          Seg("field", "creator", escapeMarkdown(CreatorName(payload).value)),
          Seg("lit", "title", <<"\n">>)>>
        \o (IF issue.parent.present
            THEN <<Seg("lit", "parent", <<":hook:", " ", "P", "a", "r", "e", "n", "t", ":", " ">>),
                   Seg("field", "parent", escapeMarkdown(issue.parent.title)),
                   Seg("lit", "parent", <<"\n">>)>>
            ELSE <<>>)
        \o (IF Len(metadata) > 0
            THEN JoinFragments(metadata) \o <<Seg("lit", "metadata", <<"\n">>)>>
            ELSE <<>>)
        \o (IF issue.assignee.present
            THEN <<Seg("lit", "assignee", <<":bust:", " ">>),
                   Seg("field", "assignee", escapeMarkdown(issue.assignee.name)),
                   Seg("lit", "assignee", <<"\n">>)>>
            ELSE <<>>)
        \o (IF payload.action = Create /\ Truthy(issue.description)
            THEN <<Seg("lit", "description", <<"\n">>),
                   Seg("field", "description",
                       IssueDescriptionText(issue.description)),
                   Seg("lit", "description", <<"\n">>)>>
            ELSE <<>>)

formatIssueMessage(payload, tz) ==
    IF IssueThrows(payload) THEN Throw("TypeError")
    ELSE Return(IssueMessage(payload, tz))

\* The body appended for a created comment only.
HasCommentBodyCreateOnly(payload) == payload.action = Create

HasCommentBody(payload) ==
    payload.action = Create \/ payload.action = Update

formatCommentMessage(payload) ==
    LET comment == payload.data
    IN  IF \/ ~payload.actor.present
           \/ ~IsString(payload.actor.name)
           \/ HasCommentBody(payload) /\ (~comment.present \/ ~IsString(comment.body))
        THEN Throw("TypeError")
        ELSE Return(
            <<Seg("lit", "header", <<":speech:", " ", "N", "e", "w", " ", "c", "o", "m", "m", "e", "n", "t", " ", "b", "y", " ">>),
              Seg("field", "actor", escapeMarkdown(payload.actor.name)),
              Seg("lit", "header", <<"\n">>)>>
            \o (IF HasCommentBody(payload)
                THEN <<Seg("lit", "body", <<"\"">>),
                       Seg("field", "body", CommentBodyText(comment.body)),
                       Seg("lit", "body", <<"\"", "\n">>)>>
                ELSE <<>>))

formatProjectMessage(payload) ==
    LET project == payload.data
        action == IF payload.action = Create THEN <<"N", "e", "w", " ", "p", "r", "o", "j", "e", "c", "t">>
                  ELSE <<"P", "r", "o", "j", "e", "c", "t", " ">> \o payload.action \o <<"d">>
    IN  IF \/ ~project.present
           \/ ~IsString(project.name)
           \/ ~payload.actor.present
           \/ ~IsString(payload.actor.name)
        THEN Throw("TypeError")
        ELSE Return(
            <<Seg("lit", "header", <<":folder:", " ">>),
              Seg(IF payload.action = Create THEN "lit" ELSE "raw", "action", action),
              Seg("lit", "header", <<":", " ">>),
              Seg("field", "name", escapeMarkdown(project.name)),
              Seg("lit", "header", <<"\n">>),
              Seg("lit", "actor", <<"\\", "-", " ">>),
              Seg("field", "actor", escapeMarkdown(payload.actor.name)),
              Seg("lit", "actor", <<"\n">>)>>)

getEntityIcon(type) ==
    CASE type = IssueType -> <<":dart:">>
      [] type = CommentType -> <<":speech:">>
      [] type = ProjectType -> <<":folder:">>
      [] type = <<"I", "s", "s", "u", "e", "L", "a", "b", "e", "l">> -> <<":label:">>
      [] type = <<"C", "y", "c", "l", "e">> -> <<":arrows:">>
      [] type = <<"U", "s", "e", "r">> -> <<":bust:">>
      [] type = <<"R", "e", "a", "c", "t", "i", "o", "n">> -> <<":heart:">>
      [] OTHER -> <<":clipboard:">>

UpperLetters ==
    <<"A", "B", "C", "D", "E", "F", "G", "H", "I", "J", "K", "L", "M",
      "N", "O", "P", "Q", "R", "S", "T", "U", "V", "W", "X", "Y", "Z">>

LowerLetters ==
    <<"a", "b", "c", "d", "e", "f", "g", "h", "i", "j", "k", "l", "m",
      "n", "o", "p", "q", "r", "s", "t", "u", "v", "w", "x", "y", "z">>

\* The entity type printed as it is.
KeepCase(text) == text

toLowerCase(text) ==
    [i \in 1..Len(text) |->
        IF \E k \in 1..26 : UpperLetters[k] = text[i]
        THEN LowerLetters[CHOOSE k \in 1..26 : UpperLetters[k] = text[i]]
        ELSE text[i]]

formatGenericMessage(payload) ==
    LET entityIcon == getEntityIcon(payload.type)
    IN  IF ~payload.actor.present \/ ~IsString(payload.actor.name)
        THEN Throw("TypeError")
        ELSE Return(
            <<Seg("lit", "icon", entityIcon \o <<" ">>),
              Seg("field", "actor", escapeMarkdown(payload.actor.name)),
              Seg("lit", "text", <<" ">>),
              Seg("raw", "action", payload.action),
              Seg("lit", "text", <<"d", " ", "a", " ">>),
              Seg("raw", "type", toLowerCase(payload.type)),
              Seg("lit", "text", <<"\n">>)>>)

\* The message of the catch block; it reads payload.actor.name again.
FallbackMessage(payload) ==
    IF ~payload.actor.present \/ ~IsString(payload.actor.name)
    THEN Throw("TypeError")
    ELSE Return(
        <<Seg("lit", "fallback", <<":x:", " ", "E", "r", "r", "o", "r", " ", "p", "r", "o", "c", "e", "s", "s", "i", "n", "g", " ">>),
          Seg("raw", "type", payload.type),
          Seg("lit", "fallback", <<" ">>),
          Seg("raw", "action", payload.action),
          Seg("lit", "fallback", <<" ", "f", "r", "o", "m", " ">>),
          Seg("field", "actor", escapeMarkdown(payload.actor.name))>>)

\* The switch of formatLinearWebhookMessage.
FormatDispatch(payload, tz) ==
    CASE payload.type = IssueType -> formatIssueMessage(payload, tz)
      [] payload.type = CommentType -> formatCommentMessage(payload)
      [] payload.type = ProjectType -> formatProjectMessage(payload)
      [] OTHER -> formatGenericMessage(payload)

formatLinearWebhookMessage(payload, tz) ==
    LET t == FormatDispatch(payload, tz)
    IN  IF t.threw THEN FallbackMessage(payload) ELSE t


(***************************************************************************)
(* Payloads.  An object that may be missing carries present; every data    *)
(* record has the fields of all three entity types.                        *)
(***************************************************************************)
Obj(name) == [present |-> TRUE, name |-> name]

NoObj == [present |-> FALSE, name |-> Undefined]

ParentObj(title) == [present |-> TRUE, title |-> title]

NoParent == [present |-> FALSE, title |-> Undefined]

UpdatedFrom(hasState, state) ==
    [present |-> TRUE, hasState |-> hasState, state |-> state]

NoUpdatedFrom == [present |-> FALSE, hasState |-> FALSE, state |-> NoObj]

CalendarDate(y, m, d) == <<[y |-> y, m |-> m, d |-> d]>>

NoData ==
    [present |-> FALSE, title |-> Undefined, url |-> Undefined,
     creator |-> NoObj, parent |-> NoParent, priority |-> NotANumber,
     dueDate |-> <<>>, state |-> NoObj, assignee |-> NoObj,
     description |-> Undefined, body |-> Undefined, name |-> Undefined]

DefaultIssue ==
    [NoData EXCEPT !.present = TRUE,
                   !.title = <<"F", "i", "x", " ", "i", "t">>,
                   !.url = <<"h", "t", "t", "p", "s", ":", "/", "/", "l", ".", "a", "p", "p", "/", "i", "_", "1">>,
                   !.creator = Obj(<<"C", "y">>),
                   !.state = Obj(<<"T", "o", "d", "o">>)]

Payload(type, action, actor, data, updatedFrom) ==
    [type |-> type, action |-> action, actor |-> actor, data |-> data,
     updatedFrom |-> updatedFrom]

Actions == {Create, Update, Remove}

\* Texts with and without characters of the class and backslashes.
SampleTexts == {<<"A", "l">>, <<"a", "_", "b", ".", "c">>, <<"\\", ".">>, <<"x", "\\">>}

Actors == {NoObj, Obj(Undefined)} \cup {Obj(t) : t \in {<<"A", "l">>, <<"a", "_", "b", ".", "c">>, <<"\\", ".">>}}

\* Texts around a limit: limit - 1 or limit copies of one character and
\* at most MaxPad more characters.
MaxPad == 2

Rep(c, n) == [i \in 1..n |-> c]

TextsAround(limit) ==
    {Rep(c, n) \o tail : c \in {"a", "."}, n \in {limit - 1, limit},
                         tail \in SeqsUpTo({"b", "\\", "!"}, MaxPad)}

Descriptions ==
    {Undefined, <<>>} \cup SampleTexts \cup TextsAround(DescriptionLimit)

CommentBodies ==
    {Undefined, <<>>} \cup SampleTexts \cup TextsAround(CommentLimit)

DueDates ==
    {<<>>, CalendarDate(2024, 3, 1), CalendarDate(2025, 1, 1),
     CalendarDate(2024, 6, 15)}

\* Minutes east of UTC of the host's time zone.
TimeZones == {-300, 0, 330}

States == {NoObj, Obj(Undefined), Obj(<<"T", "o", "d", "o">>), Obj(<<"I", "n", "-", "P", "r", "o", "g", "r", "e", "s", "s">>)}

UpdatedFroms ==
    {NoUpdatedFrom, UpdatedFrom(FALSE, NoObj), UpdatedFrom(TRUE, NoObj),
     UpdatedFrom(TRUE, Obj(Undefined)), UpdatedFrom(TRUE, Obj(<<"B", "a", "c", "k", "_", "l", "o", "g">>))}

\* Issue events that vary the header and the title line.
IssueTitlePayloads ==
    {Payload(IssueType, action, actor,
             [DefaultIssue EXCEPT !.title = title, !.creator = creator,
                                  !.parent = parent],
             NoUpdatedFrom) :
        action \in Actions, actor \in Actors,
        title \in {Undefined, <<"F", "i", "x", " ", "i", "t">>, <<"\\", ".">>},
        creator \in {NoObj, Obj(<<>>), Obj(<<"C", "y">>), Obj(<<"x", "\\">>)},
        parent \in {NoParent, ParentObj(Undefined), ParentObj(<<"E", "p", "i", "c", " ", "#", "1">>)}}

\* Issue events that vary the metadata line.
IssueMetadataPayloads ==
    {Payload(IssueType, action, Obj(<<"A", "l">>),
             [DefaultIssue EXCEPT !.priority = priority, !.dueDate = dueDate,
                                  !.state = state],
             updatedFrom) :
        action \in Actions,
        priority \in {NotANumber} \cup {Num(n) : n \in 0..5},
        dueDate \in DueDates, state \in States, updatedFrom \in UpdatedFroms}

\* Issue events that vary the assignee and the description.
IssueTextPayloads ==
    {Payload(IssueType, action, Obj(<<"A", "l">>),
             [DefaultIssue EXCEPT !.assignee = assignee,
                                  !.description = description],
             NoUpdatedFrom) :
        action \in Actions,
        assignee \in {NoObj, Obj(Undefined), Obj(<<"a", "_", "b", ".", "c">>)},
        description \in Descriptions}

CommentPayloads ==
    {Payload(CommentType, action, actor, [NoData EXCEPT !.present = TRUE, !.body = body],
             NoUpdatedFrom) :
        action \in Actions, actor \in Actors, body \in CommentBodies}

ProjectPayloads ==
    {Payload(ProjectType, action, actor, [NoData EXCEPT !.present = TRUE, !.name = name],
             NoUpdatedFrom) :
        action \in Actions, actor \in Actors, name \in SampleTexts \cup {Undefined}}

OtherTypes == {<<"I", "s", "s", "u", "e", "L", "a", "b", "e", "l">>, <<"C", "y", "c", "l", "e">>, <<"D", "o", "c", "u", "m", "e", "n", "t">>}

GenericPayloads ==
    {Payload(type, action, actor, data, NoUpdatedFrom) :
        type \in OtherTypes, action \in Actions, actor \in Actors,
        data \in {NoData, [NoData EXCEPT !.present = TRUE]}}

\* Events whose data is missing altogether.
NoDataPayloads ==
    {Payload(type, action, actor, NoData, NoUpdatedFrom) :
        type \in {IssueType, CommentType, ProjectType},
        action \in Actions, actor \in Actors}

Payloads ==
    IssueTitlePayloads \cup IssueMetadataPayloads \cup IssueTextPayloads
        \cup CommentPayloads \cup ProjectPayloads \cup GenericPayloads
        \cup NoDataPayloads

(***************************************************************************)
(* One call of formatLinearWebhookMessage on an arbitrary payload.         *)
(***************************************************************************)
InitFormat ==
    /\ \E payload \in Payloads :
         \E tz \in (IF payload.data.dueDate # <<>> THEN TimeZones ELSE {0}) :
            fmt = [pc |-> "call", payload |-> payload, tz |-> tz,
                   result |-> Return(<<>>)]
    /\ sig = Idle
    /\ fresh = Idle
    /\ clock = 0
    /\ reqs = <<>>
    /\ telegram = {}

CallFormat ==
    /\ fmt.pc = "call"
    /\ fmt' = [fmt EXCEPT !.pc = "done",
                          !.result = formatLinearWebhookMessage(fmt.payload, fmt.tz)]
    /\ UNCHANGED <<sig, fresh, clock, reqs, telegram>>

NextFormat == CallFormat

SpecFormat == InitFormat /\ [][NextFormat]_vars

\* The text of the field segment named part, empty when there is none.
RenderedPart(segs, part) ==
    IF \E k \in 1..Len(segs) : segs[k].kind = "field" /\ segs[k].part = part
    THEN segs[CHOOSE k \in 1..Len(segs) :
                  segs[k].kind = "field" /\ segs[k].part = part].text
    ELSE <<>>

Contains(text, part) ==
    \E i \in 0..(Len(text) - Len(part)) :
        SubSeq(text, i + 1, i + Len(part)) = part

\* C1: formatLinearWebhookMessage returns a non-empty string and never
\* throws, whatever is missing from the payload (actor and actor.name
\* included); when a renderer fails the result is the fallback text naming
\* the entity type, the action and the actor.
C1_FormatNeverThrows ==
    fmt.pc = "done" =>
        /\ ~fmt.result.threw
        /\ Flatten(fmt.result.value) # <<>>
        /\ FormatDispatch(fmt.payload, fmt.tz).threw =>
              /\ fmt.result.value[1].part = "fallback"
              /\ Contains(Flatten(fmt.result.value), fmt.payload.type)
              /\ Contains(Flatten(fmt.result.value), fmt.payload.action)

\* The characters Telegram's MarkdownV2 reserves: each must be preceded by
\* a backslash to stand for itself.
MarkdownV2Reserved ==
    {"_", "*", "[", "]", "(", ")", "~", ":backtick:", ">", "#", "+", "-",
     "=", "|", "{", "}", ".", "!"}

\* The number of backslashes that immediately precede position i.
BackslashRun(text, i) ==
    LET others == {j \in 1..(i - 1) : text[j] # "\\"}
    IN  IF others = {} THEN i - 1
        ELSE (i - 1) - (CHOOSE j \in others : \A k \in others : k <= j)

\* MarkdownV2 reads a backslash as escaping the character after it, so the
\* character at i is escaped when an odd number of backslashes precede it.
UnescapedReservedAt(text, i) ==
    /\ text[i] \in MarkdownV2Reserved
    /\ BackslashRun(text, i) % 2 = 0

SegStart(segs, k) == Len(Flatten(SubSeq(segs, 1, k - 1)))

FieldsFullyEscaped(segs) ==
    LET text == Flatten(segs)
    IN  \A k \in 1..Len(segs) :
            segs[k].kind = "field" =>
                \A i \in 1..Len(segs[k].text) :
                    ~UnescapedReservedAt(text, SegStart(segs, k) + i)

\* C9: whatever the user-supplied fields contain, backslashes included, no
\* reserved MarkdownV2 character that comes from an interpolated field is
\* left unescaped in the output; only the link URL is inserted unescaped.
C9_FieldsEscaped ==
    (fmt.pc = "done" /\ ~fmt.result.threw) =>
        /\ FieldsFullyEscaped(fmt.result.value)
        /\ \A k \in 1..Len(fmt.result.value) :
              fmt.result.value[k].kind = "url" =>
                  fmt.result.value[k].text = TemplateText(fmt.payload.data.url)

\* An ellipsis marker: three dots, escaped or not, and nothing else.
IsEllipsisMarker(text) ==
    /\ \A i \in 1..Len(text) : text[i] \in {".", "\\"}
    /\ Cardinality({i \in 1..Len(text) : text[i] = "."}) = 3

\* out is the escape of the first limit characters of text and an ellipsis
\* marker when text is longer than limit, and the escape of text otherwise.
TruncatedBeforeEscaping(out, text, limit) ==
    IF Len(text) > limit
    THEN LET head == escapeMarkdown(SubSeq(text, 1, limit))
         IN  /\ Len(out) > Len(head)
             /\ SubSeq(out, 1, Len(head)) = head
             /\ IsEllipsisMarker(SubSeq(out, Len(head) + 1, Len(out)))
    ELSE out = escapeMarkdown(text)

IsIssueWithDescription ==
    /\ fmt.pc = "done"
    /\ fmt.payload.type = IssueType
    /\ fmt.payload.action = Create
    /\ IsString(fmt.payload.data.description)
    /\ ~FormatDispatch(fmt.payload, fmt.tz).threw

IsCommentWithBody ==
    /\ fmt.pc = "done"
    /\ fmt.payload.type = CommentType
    /\ fmt.payload.action \in {Create, Update}
    /\ ~FormatDispatch(fmt.payload, fmt.tz).threw

\* C10: truncation is measured before escaping: a description longer than
\* 300 characters (on create) is rendered as the escape of its first 300
\* characters and an ellipsis marker, a comment body longer than 200
\* characters (on create or update) as the escape of its first 200
\* characters and an ellipsis marker; a shorter one is rendered in full,
\* escaped, with no ellipsis.
C10_TruncationBeforeEscaping ==
    /\ IsIssueWithDescription =>
          TruncatedBeforeEscaping(RenderedPart(fmt.result.value, "description"),
                                  fmt.payload.data.description, 300)
    /\ IsCommentWithBody =>
          TruncatedBeforeEscaping(RenderedPart(fmt.result.value, "body"),
                                  fmt.payload.data.body, 200)

\* A description of 301 characters whose first 300 hold characters of the
\* class was cut, and so was such a comment body of 201 characters.
C10_Witness ==
    \/ /\ IsIssueWithDescription
       /\ Len(fmt.payload.data.description) = 301
       /\ fmt.payload.data.description[1] = "."
       /\ Len(RenderedPart(fmt.result.value, "description")) = 606
    \/ /\ IsCommentWithBody
       /\ Len(fmt.payload.data.body) = 201
       /\ fmt.payload.data.body[1] = "."
       /\ Len(RenderedPart(fmt.result.value, "body")) = 409


(***************************************************************************)
(* src/index.ts: POST /webhook/linear.                                     *)
(*                                                                         *)
(* A request body is a sequence of bytes in which 0 is a blank and k > 0   *)
(* stands for the JSON text of the k-th document of JsonDocs as Linear     *)
(* serializes it; any other byte is text that is no JSON.                  *)
(***************************************************************************)

\* config.linear.webhookSecret
ServerSecret == <<1>>

\* The time zone of the host, minutes east of UTC.
HostTimeZone == 0

\* Date.now() when the server starts, and the requests and clock steps of
\* a run.
ClockStart == 2 * MaxAgeMs

MaxTicks == 1

NumRequests == 2

Doc(payload, webhookTimestamp) ==
    [isNull |-> FALSE, webhookTimestamp |-> webhookTimestamp, payload |-> payload]

NullDoc ==
    [isNull |-> TRUE, webhookTimestamp |-> NotANumber,
     payload |-> Payload(<<>>, <<>>, NoObj, NoData, NoUpdatedFrom)]

JsonDocs ==
    << \* an issue created MaxAgeMs before the server's start
       Doc(Payload(IssueType, Create, Obj(<<"A", "l">>),
                   [DefaultIssue EXCEPT !.description = <<"a", "_", "b", ".", "c">>], NoUpdatedFrom),
           Num(ClockStart - MaxAgeMs)),
       \* a comment whose actor has no name
       Doc(Payload(CommentType, Create, Obj(Undefined),
                   [NoData EXCEPT !.present = TRUE, !.body = <<"o", "k">>], NoUpdatedFrom),
           Num(ClockStart + MaxAgeMs)),
       \* an event with no actor
       Doc(Payload(<<"I", "s", "s", "u", "e", "L", "a", "b", "e", "l">>, Update, NoObj, NoData, NoUpdatedFrom),
           Num(ClockStart)),
       \* the text null
       NullDoc,
       \* an event with no webhookTimestamp
       Doc(Payload(ProjectType, Remove, Obj(<<"A", "l">>),
                   [NoData EXCEPT !.present = TRUE, !.name = <<"P", "1">>], NoUpdatedFrom),
           NotANumber),
       \* an issue without a title: the formatter falls back
       Doc(Payload(IssueType, Update, Obj(<<"A", "l">>),
                   [DefaultIssue EXCEPT !.title = Undefined], NoUpdatedFrom),
           Num(ClockStart)) >>

Blank == 0

NotJson == Len(JsonDocs) + 1

StripBlanks(bytes) == SelectSeq(bytes, LAMBDA b : b # Blank)

\* JSON.parse(rawBody.toString()): blanks around the document are skipped;
\* a SyntaxError unless the text is one document.
JSONParse(rawBody) ==
    LET text == StripBlanks(rawBody)
    IN  IF Len(text) = 1 /\ text[1] \in 1..Len(JsonDocs)
        THEN Return(JsonDocs[text[1]])
        ELSE Throw("SyntaxError")

\* JSON.stringify of a parsed document: its text with no blanks.
JSONStringify(doc) ==
    <<CHOOSE k \in 1..Len(JsonDocs) : JsonDocs[k] = doc>>

\* What one run of the handler did, up to its response or its await:
\* signed is the content whose HMAC was computed, stage the statement
\* reached, status the response sent (0: none yet), text the message
\* handed to sendMessage.
Outcome(signed, stage, status, message) ==
    [signed |-> signed, stage |-> stage, status |-> status,
     formatted |-> stage \in {"format", "send"},
     sendIssued |-> stage = "send",
     text |-> IF stage = "send" THEN Flatten(message) ELSE <<>>]

\* The handler with the freshness check left out.
HandleVerifiedNoTimestamp(rawBody, now) ==
    LET parsed == JSONParse(rawBody)
        payload == parsed.value
    IN  IF parsed.threw THEN Outcome(rawBody, "parse", 500, <<>>)
        ELSE IF payload.isNull THEN Outcome(rawBody, "timestamp", 500, <<>>)
        ELSE IF ~payload.payload.actor.present
        THEN Outcome(rawBody, "log", 500, <<>>)
        ELSE LET message == formatLinearWebhookMessage(payload.payload, HostTimeZone)
             IN  IF message.threw THEN Outcome(rawBody, "format", 500, <<>>)
                 ELSE Outcome(rawBody, "send", 0, message.value)

\* The handler after a successful signature check (lines 41-59).
HandleVerified(rawBody, now) ==
    LET parsed == JSONParse(rawBody)
        payload == parsed.value
    IN  IF parsed.threw THEN Outcome(rawBody, "parse", 500, <<>>)
        ELSE IF payload.isNull THEN Outcome(rawBody, "timestamp", 500, <<>>)
        ELSE IF ~verifyWebhookTimestamp(payload.webhookTimestamp, now)
        THEN Outcome(rawBody, "timestamp", 401, <<>>)
        ELSE IF ~payload.payload.actor.present
        THEN Outcome(rawBody, "log", 500, <<>>)
        ELSE LET message == formatLinearWebhookMessage(payload.payload, HostTimeZone)
             IN  IF message.threw THEN Outcome(rawBody, "format", 500, <<>>)
                 ELSE Outcome(rawBody, "send", 0, message.value)

\* The handler verifying the re-serialized parsed body.
webhookHandlerReserialized(signature, rawBody, now) ==
    LET parsed == IF rawBody = NotBytes THEN Throw("TypeError") ELSE JSONParse(rawBody)
        signed == IF parsed.threw THEN rawBody ELSE JSONStringify(parsed.value)
    IN  IF parsed.threw THEN Outcome(rawBody, "parse", 500, <<>>)
        ELSE IF ~verifyLinearSignature(signature, signed, ServerSecret).value
        THEN Outcome(signed, "signature", 401, <<>>)
        ELSE [HandleVerified(rawBody, now) EXCEPT !.signed = signed]

\* The handler from its first statement to its response or to the await of
\* sendMessage (lines 31-59 and the catch at 64-69).
webhookHandler(signature, rawBody, now) ==
    LET verified == verifyLinearSignature(signature, rawBody, ServerSecret)
    IN  IF verified.threw THEN Outcome(rawBody, "signature", 500, <<>>)
        ELSE IF ~verified.value THEN Outcome(rawBody, "signature", 401, <<>>)
        ELSE HandleVerified(rawBody, now)

\* The requests a client may send: a body and a linear-signature header.
Request(header, body) == [header |-> header, body |-> body]

HandlerBodies == {<<k>> : k \in 1..NotJson} \cup {<<1, Blank>>}

Requests ==
    {Request(SignatureFor(ServerSecret, b), b) : b \in HandlerBodies}
    \cup {Request(Undefined, <<1>>),
          Request(SignatureFor(ServerSecret, <<1>>), <<1, Blank>>),
          Request(SignatureFor(ServerSecret, <<1>>), NotBytes)}

\* The handler's run for every request and every reading of the clock.
HandlerRuns ==
    [q \in Requests, now \in ClockStart..(ClockStart + MaxTicks) |->
        webhookHandler(q.header, q.body, now)]

NoOutcome == Outcome(<<>>, "none", 0, <<>>)

NoRequest ==
    [pc |-> "none", header |-> Undefined, body |-> <<>>, out |-> NoOutcome]

Init ==
    /\ sig = Idle
    /\ fresh = Idle
    /\ fmt = Idle
    /\ clock = ClockStart
    /\ reqs = [r \in 1..NumRequests |-> NoRequest]
    /\ telegram = {}

\* bot.telegram.sendMessage(chatId, message, ...) issued by request r; its
\* promise is pending, resolved or rejected.
SendCall(r, text, promise) == [req |-> r, text |-> text, promise |-> promise]

\* The promise of request r's sendMessage settles.
Settle(calls, r, promise) ==
    {IF m.req = r THEN [m EXCEPT !.promise = promise] ELSE m : m \in calls}

\* express.raw has read the body of a request and the route is entered.
Receive(r) ==
    /\ reqs[r].pc = "none"
    /\ \E q \in Requests :
          reqs' = [reqs EXCEPT ![r] = [NoRequest EXCEPT !.pc = "received",
                                                        !.header = q.header,
                                                        !.body = q.body]]
    /\ UNCHANGED <<sig, fresh, fmt, clock, telegram>>

\* A handler that keeps a failure flag shared by all requests: once any
\* request was answered 401 or 500, later ones are answered 500.
HandleSharedFailure(r) ==
    /\ reqs[r].pc = "received"
    /\ \E out \in {IF \E q \in 1..NumRequests : reqs[q].out.status \in {401, 500}
                   THEN Outcome(reqs[r].body, "signature", 500, <<>>)
                   ELSE HandlerRuns[Request(reqs[r].header, reqs[r].body), clock]} :
          /\ reqs' = [reqs EXCEPT ![r].pc = IF out.status = 0 THEN "awaiting"
                                                              ELSE "responded",
                                  ![r].out = out]
          /\ telegram' = IF out.sendIssued
                         THEN telegram \cup {SendCall(r, out.text, "pending")}
                         ELSE telegram
    /\ UNCHANGED <<sig, fresh, fmt, clock>>

\* A handler without its catch block: an exception ends the run with no
\* response.
HandleUncaught(r) ==
    /\ reqs[r].pc = "received"
    /\ \E out \in {HandlerRuns[Request(reqs[r].header, reqs[r].body), clock]} :
          /\ reqs' = [reqs EXCEPT ![r].pc = IF out.status = 0 THEN "awaiting"
                                            ELSE IF out.status = 500 THEN "failed"
                                            ELSE "responded",
                                  ![r].out = [out EXCEPT !.status =
                                                 IF out.status = 500 THEN 0
                                                 ELSE out.status]]
          /\ telegram' = IF out.sendIssued
                         THEN telegram \cup {SendCall(r, out.text, "pending")}
                         ELSE telegram
    /\ UNCHANGED <<sig, fresh, fmt, clock>>

\* The handler runs to its response or to the await of sendMessage.
Handle(r) ==
    /\ reqs[r].pc = "received"
    /\ \E out \in {HandlerRuns[Request(reqs[r].header, reqs[r].body), clock]} :
          /\ reqs' = [reqs EXCEPT ![r].pc = IF out.status = 0 THEN "awaiting"
                                                              ELSE "responded",
                                  ![r].out = out]
          /\ telegram' = IF out.sendIssued
                         THEN telegram \cup {SendCall(r, out.text, "pending")}
                         ELSE telegram
    /\ UNCHANGED <<sig, fresh, fmt, clock>>

\* sendMessage resolves: the handler answers 200.
SendResolved(r) ==
    /\ reqs[r].pc = "awaiting"
    /\ reqs' = [reqs EXCEPT ![r].pc = "responded", ![r].out.status = 200]
    /\ telegram' = Settle(telegram, r, "resolved")
    /\ UNCHANGED <<sig, fresh, fmt, clock>>

\* A rejected sendMessage answered as if it had succeeded.
SendRejectedAnswers200(r) ==
    /\ reqs[r].pc = "awaiting"
    /\ reqs' = [reqs EXCEPT ![r].pc = "responded", ![r].out.status = 200]
    /\ telegram' = Settle(telegram, r, "rejected")
    /\ UNCHANGED <<sig, fresh, fmt, clock>>

\* sendMessage rejects: the catch block answers 500.
SendRejected(r) ==
    /\ reqs[r].pc = "awaiting"
    /\ reqs' = [reqs EXCEPT ![r].pc = "responded", ![r].out.status = 500]
    /\ telegram' = Settle(telegram, r, "rejected")
    /\ UNCHANGED <<sig, fresh, fmt, clock>>

\* Time passes.
Tick ==
    /\ clock < ClockStart + MaxTicks
    /\ clock' = clock + 1
    /\ UNCHANGED <<sig, fresh, fmt, reqs, telegram>>

Next ==
    \/ \E r \in 1..NumRequests : Receive(r)
    \/ \E r \in 1..NumRequests : Handle(r)
    \/ \E r \in 1..NumRequests : SendResolved(r)
    \/ \E r \in 1..NumRequests : SendRejected(r)
    \/ Tick

Spec == Init /\ [][Next]_vars

\* The event loop runs every handler that is ready, and every sendMessage
\* promise settles.
Fairness ==
    \A r \in 1..NumRequests :
        /\ WF_vars(Handle(r))
        /\ WF_vars(SendResolved(r) \/ SendRejected(r))

SpecLive == Init /\ [][Next]_vars /\ Fairness


Handled(r) == reqs[r].pc \in {"awaiting", "responded"}

\* The signature check passes for the request as it was received.
SignatureVerified(r) ==
    verifyLinearSignature(reqs[r].header, reqs[r].body, ServerSecret) = Return(TRUE)

\* The freshness check passes for the request's webhookTimestamp at now.
FreshAt(r, now) ==
    /\ ~JSONParse(reqs[r].body).threw
    /\ verifyWebhookTimestamp(JSONParse(reqs[r].body).value.webhookTimestamp, now)

\* The handler runs for request r in this step.
Handles(r) == reqs[r].pc = "received" /\ reqs'[r].pc # "received"

\* C7: a payload is formatted and a sendMessage issued only after
\* verifyLinearSignature returned true for the request's body and
\* verifyWebhookTimestamp returned true for its webhookTimestamp; no message
\* is ever sent for a request that failed either check.
C7_VerifiedBeforeSend ==
    /\ [](/\ \A r \in 1..NumRequests :
              (reqs[r].out.formatted \/ reqs[r].out.sendIssued) =>
                  SignatureVerified(r)
          /\ \A m \in telegram : Handled(m.req) /\ SignatureVerified(m.req)
          /\ \A r \in 1..NumRequests :
                (Handled(r) /\ reqs[r].out.stage \in {"signature", "timestamp"}) =>
                    /\ ~reqs[r].out.formatted
                    /\ \A m \in telegram : m.req # r)
    /\ [][\A r \in 1..NumRequests :
            /\ (Handles(r) /\ (reqs'[r].out.formatted \/ reqs'[r].out.sendIssued))
               => FreshAt(r, clock)
            /\ (telegram' # telegram /\ Handles(r))
               => SignatureVerified(r) /\ FreshAt(r, clock)
            /\ (Handles(r) /\ ~(SignatureVerified(r) /\ FreshAt(r, clock)))
               => telegram' = telegram /\ ~reqs'[r].out.formatted]_vars

\* One request was verified and sent while another, correctly signed but
\* stale when handled, was answered 401 with nothing sent.
C7_Witness ==
    \E r1, r2 \in 1..NumRequests :
        /\ reqs[r1].out.sendIssued
        /\ reqs[r1].out.status = 200
        /\ reqs[r2].out.stage = "timestamp"
        /\ reqs[r2].out.status = 401
        /\ reqs[r2].header = SignatureFor(ServerSecret, reqs[r2].body)
        /\ JSONParse(reqs[r2].body).value.webhookTimestamp = Num(ClockStart - MaxAgeMs)
        /\ \E m \in telegram : m.req = r1
        /\ \A m \in telegram : m.req # r2

\* The body parses and its re-serialized form differs from it.
Reserializes(body) ==
    /\ body # NotBytes
    /\ ~JSONParse(body).threw
    /\ JSONStringify(JSONParse(body).value) # body

\* C8: the HMAC is computed over the request body exactly as received: the
\* body goes to verifyLinearSignature unparsed, JSON parsing happens only
\* after the signature check succeeded, and no parsed or re-serialized form
\* of the body is the signed content.
C8_RawBodySigned ==
    \A r \in 1..NumRequests :
        Handled(r) =>
            /\ reqs[r].out.signed = reqs[r].body
            /\ reqs[r].out.stage # "signature" =>
                  verifyLinearSignature(reqs[r].header, reqs[r].body,
                                        ServerSecret) = Return(TRUE)
            /\ (/\ reqs[r].body # NotBytes
                /\ reqs[r].header = SignatureFor(ServerSecret, reqs[r].body))
               => reqs[r].out.stage # "signature"
            /\ (/\ Reserializes(reqs[r].body)
                /\ reqs[r].header =
                       SignatureFor(ServerSecret,
                                    JSONStringify(JSONParse(reqs[r].body).value)))
               => reqs[r].out.stage = "signature" /\ reqs[r].out.status = 401

\* A body with a blank after its document, signed as sent, passed the
\* signature check and was parsed and sent.
C8_Witness ==
    \E r \in 1..NumRequests :
        /\ Handled(r)
        /\ Reserializes(reqs[r].body)
        /\ reqs[r].header = SignatureFor(ServerSecret, reqs[r].body)
        /\ reqs[r].out.stage = "send"

\* The sendMessage calls of request r.
SendCalls(r) == {m \in telegram : m.req = r}

\* The body of request r parses to a document that is not null.
ParsesToObject(r) ==
    /\ ~JSONParse(reqs[r].body).threw
    /\ ~JSONParse(reqs[r].body).value.isNull

\* C11: the handler sends exactly one response per request: 401 when the
\* signature check or the freshness check fails, with no formatting and no
\* send; 200 only when the Telegram send completed successfully; 500 for
\* any exception raised after the signature check (unparseable body, send
\* failure).
C11_ResponseStatus ==
    /\ [](\A r \in 1..NumRequests :
            /\ reqs[r].pc = "responded" <=> reqs[r].out.status \in {200, 401, 500}
            /\ reqs[r].pc # "responded" => reqs[r].out.status = 0
            /\ Cardinality(SendCalls(r)) <= 1
            /\ (Handled(r) /\ ~SignatureVerified(r)) =>
                  reqs[r].out.status = 401 /\ reqs[r].out.stage = "signature"
            /\ reqs[r].out.status = 401 =>
                  /\ reqs[r].out.stage \in {"signature", "timestamp"}
                  /\ ~reqs[r].out.formatted
                  /\ SendCalls(r) = {}
            /\ reqs[r].out.status = 200 <=>
                  \E m \in SendCalls(r) : m.promise = "resolved"
            /\ (\E m \in SendCalls(r) : m.promise = "rejected") =>
                  reqs[r].out.status = 500
            /\ (Handled(r) /\ SignatureVerified(r) /\ ~ParsesToObject(r)) =>
                  reqs[r].out.status = 500 /\ SendCalls(r) = {}
            /\ reqs[r].out.status = 500 => SignatureVerified(r))
    /\ [][\A r \in 1..NumRequests :
            /\ reqs[r].pc = "responded" => reqs'[r] = reqs[r]
            /\ (Handles(r) /\ SignatureVerified(r) /\ ParsesToObject(r)
                           /\ ~FreshAt(r, clock))
               => reqs'[r].out.status = 401 /\ reqs'[r].out.stage = "timestamp"
            /\ (Handles(r) /\ reqs'[r].out.status = 401)
               => ~SignatureVerified(r) \/ ~FreshAt(r, clock)
            /\ (Handles(r) /\ SignatureVerified(r) /\ FreshAt(r, clock))
               => \/ reqs'[r].out.status = 500
                  \/ reqs'[r].pc = "awaiting" /\ reqs'[r].out.sendIssued]_vars

\* One request was answered 500 after its sendMessage was rejected, and
\* another 500 because its correctly signed body is no JSON.
C11_Witness ==
    \E r1, r2 \in 1..NumRequests :
        /\ reqs[r1].out.status = 500
        /\ \E m \in SendCalls(r1) : m.promise = "rejected"
        /\ reqs[r2].out.status = 500
        /\ reqs[r2].out.stage = "parse"
        /\ reqs[r2].body = <<NotJson>>
        /\ SignatureVerified(r2)


(***************************************************************************)
(* The renderers of the formatter, one event at a time.                    *)
(***************************************************************************)

\* The text of the segments of segs whose part is in parts, in order.
PartsText(segs, parts) ==
    Flatten(SelectSeq(segs, LAMBDA g : g.part \in parts))

\* An Issue event that formatIssueMessage rendered.
IsRenderedIssue ==
    /\ fmt.pc = "done"
    /\ fmt.payload.type = IssueType
    /\ ~FormatDispatch(fmt.payload, fmt.tz).threw

\* updatedFrom carries a prior state with a name.
HasPriorStateName(payload) ==
    /\ payload.updatedFrom.present
    /\ payload.updatedFrom.hasState
    /\ payload.updatedFrom.state.present
    /\ Truthy(payload.updatedFrom.state.name)

\* The status fragment the event calls for.
ExpectedStatus(payload) ==
    LET current == escapeMarkdown(payload.data.state.name)
    IN  IF payload.action = Update /\ HasPriorStateName(payload)
        THEN <<"\\", "[">> \o escapeMarkdown(payload.updatedFrom.state.name)
                 \o <<"\\", "]", " ", "\\", "-", "\\", ">", " ", "\\", "[">>
                 \o current \o <<"\\", "]">>
        ELSE current

\* C12: an Issue event whose entity has a state always has a status
\* fragment in its metadata: "[previous] -> [current]", both names escaped,
\* when action=update and updatedFrom carries a prior state name, and the
\* current state name alone in every other case, an update whose
\* updatedFrom has a 'state' entry without a usable name included; the
\* fragment is omitted only when the entity has no state.
C12_StatusFragment ==
    IsRenderedIssue =>
        IF fmt.payload.data.state.present /\ IsString(fmt.payload.data.state.name)
        THEN PartsText(fmt.result.value, {"status", "previous"})
                 = ExpectedStatus(fmt.payload)
        ELSE PartsText(fmt.result.value, {"status", "previous"}) = <<>>

\* The positions of the segments of segs whose part is in parts.
SegIndexes(segs, parts) == {k \in 1..Len(segs) : segs[k].part \in parts}

MetadataParts == {"priority", "due", "status", "previous", "separator", "metadata"}

\* The label the header of an Issue event must carry.
ExpectedHeaderLabel(payload) ==
    IF payload.action = Create
    THEN (IF payload.data.parent.present THEN <<"N", "e", "w", " ", "s", "u", "b", "-", "i", "s", "s", "u", "e">> ELSE <<"N", "e", "w", " ", "i", "s", "s", "u", "e">>)
    ELSE IF payload.action = Update THEN <<"I", "s", "s", "u", "e", " ", "u", "p", "d", "a", "t", "e", "d">>
    ELSE <<"I", "s", "s", "u", "e", " ", "r", "e", "m", "o", "v", "e", "d">>

\* The name the title line must carry: the creator's, the actor's when
\* there is no creator (a creator without a usable name counts as none).
ExpectedCreator(payload) ==
    IF payload.data.creator.present /\ Truthy(payload.data.creator.name)
    THEN payload.data.creator.name
    ELSE payload.actor.name

\* C13: the header of an Issue event is selected by its action and is the
\* sub-issue label exactly when action=create and a parent is present;
\* whenever a parent is present, for any action, a "Parent: <escaped parent
\* title>" line comes after the title line and before the metadata line;
\* the title line names the creator, and actor.name when the creator is
\* absent.
C13_HeaderParentCreator ==
    IsRenderedIssue =>
        LET segs == fmt.result.value
            payload == fmt.payload
            header == PartsText(segs, {"header"})
        IN  /\ segs[1].part = "header"
            /\ SubSeq(header, 3, Len(header)) = ExpectedHeaderLabel(payload) \o <<"\n">>
            /\ Contains(header, <<"s", "u", "b", "-", "i", "s", "s", "u", "e">>)
                   <=> (payload.action = Create /\ payload.data.parent.present)
            /\ PartsText(segs, {"parent"}) =
                   (IF payload.data.parent.present
                    THEN <<":hook:">> \o <<" ", "P", "a", "r", "e", "n", "t", ":", " ">>
                             \o escapeMarkdown(payload.data.parent.title) \o <<"\n">>
                    ELSE <<>>)
            /\ \A i \in SegIndexes(segs, {"parent"}) :
                   /\ \A j \in SegIndexes(segs, {"header", "title", "creator"}) : j < i
                   /\ \A j \in SegIndexes(segs, MetadataParts) : i < j
            /\ PartsText(segs, {"title", "creator"}) =
                   <<"[">> \o escapeMarkdown(payload.data.title) \o <<"]", "(">>
                       \o TemplateText(payload.data.url) \o <<")", " ", "\\", "-", " ">>
                       \o escapeMarkdown(ExpectedCreator(payload)) \o <<"\n">>

\* A created issue with a parent and no creator was rendered, and so was
\* an updated issue with a parent and a creator.
C13_Witness ==
    /\ IsRenderedIssue
    /\ fmt.payload.data.parent.present
    /\ \/ /\ fmt.payload.action = Create
          /\ ~fmt.payload.data.creator.present
          /\ RenderedPart(fmt.result.value, "creator") = <<"A", "l">>
          /\ SegIndexes(fmt.result.value, MetadataParts) # {}
       \/ /\ fmt.payload.action = Update
          /\ RenderedPart(fmt.result.value, "creator") = <<"C", "y">>
          /\ RenderedPart(fmt.result.value, "parent") = <<"E", "p", "i", "c", " ", "\\", "#", "1">>

\* The texts of texts that are not empty, joined with " • ".
RECURSIVE JoinPresent(_)
JoinPresent(texts) ==
    IF texts = <<>> THEN <<>>
    ELSE LET rest == JoinPresent(Tail(texts))
         IN  IF Head(texts) = <<>> THEN rest
             ELSE IF rest = <<>> THEN Head(texts)
             ELSE Head(texts) \o <<" ", ":bullet:", " ">> \o rest

\* The label of a priority from 1 to 4.
ExpectedPriorityLabel(n) ==
    CASE n = 1 -> <<"U", "r", "g", "e", "n", "t">>
      [] n = 2 -> <<"H", "i", "g", "h">>
      [] n = 3 -> <<"M", "e", "d", "i", "u", "m">>
      [] n = 4 -> <<"L", "o", "w">>

HasPriority(issue) == issue.priority # NotANumber /\ issue.priority[1] > 0

\* C14: the metadata line of an Issue event is the join with " • " of
\* exactly the fragments that are present, in the order priority, due date,
\* status: the priority fragment is present iff priority is present and
\* > 0 (Urgent, High, Medium, Low for 1, 2, 3, 4), the due-date fragment iff
\* dueDate is present; with no fragment there is no metadata line at all.
C14_MetadataLine ==
    IsRenderedIssue =>
        LET segs == fmt.result.value
            issue == fmt.payload.data
            priority == PartsText(segs, {"priority"})
            due == PartsText(segs, {"due"})
            status == PartsText(segs, {"status", "previous"})
            joined == JoinPresent(<<priority, due, status>>)
        IN  /\ priority # <<>> <=> HasPriority(issue)
            /\ (HasPriority(issue) /\ issue.priority[1] \in 1..4) =>
                   priority = <<"P", "r", "i", "o", "r", "i", "t", "y", ":", " ">> \o ExpectedPriorityLabel(issue.priority[1])
            /\ due # <<>> <=> issue.dueDate # <<>>
            /\ issue.dueDate # <<>> =>
                   SubSeq(due, 1, 5) = <<"D", "u", "e", ":", " ">> /\ Len(due) > 5
            /\ PartsText(segs, MetadataParts) =
                   (IF joined = <<>> THEN <<>> ELSE joined \o <<"\n">>)
            /\ \A i, j \in SegIndexes(segs, MetadataParts) :
                   \A k \in i..j : k \in SegIndexes(segs, MetadataParts)

\* An issue with priority 2, a due date and a state has all three fragments
\* on its metadata line; an issue with none of them has no metadata line.
C14_Witness ==
    /\ IsRenderedIssue
    /\ \/ /\ fmt.tz = 0
          /\ PartsText(fmt.result.value, MetadataParts) =
                 <<"P", "r", "i", "o", "r", "i", "t", "y", ":", " ", "H", "i", "g", "h">> \o <<" ", ":bullet:", " ">> \o <<"D", "u", "e", ":", " ", "M", "a", "r", " ", "1", ",", " ", "2", "0", "2", "4">> \o <<" ", ":bullet:", " ">> \o <<"T", "o", "d", "o">> \o <<"\n">>
       \/ /\ ~HasPriority(fmt.payload.data)
          /\ fmt.payload.data.dueDate = <<>>
          /\ ~fmt.payload.data.state.present
          /\ SegIndexes(fmt.result.value, MetadataParts) = {}

\* The marker that follows the escaped first limit characters of text in
\* out.
RenderedMarker(out, text, limit) ==
    SubSeq(out, Len(escapeMarkdown(SubSeq(text, 1, limit))) + 1, Len(out))

\* Three dots, each preceded by exactly one backslash.
EscapedEllipsis == <<"\\", ".", "\\", ".", "\\", ".">>

\* C15: whenever a description or a comment body is truncated, the ellipsis
\* marker appears in the output correctly escaped: each of its three dots is
\* preceded by exactly one escaping backslash, so no dot is an unescaped
\* reserved character and no literal backslash is rendered.
C15_EllipsisEscaped ==
    /\ (IsIssueWithDescription /\ Len(fmt.payload.data.description) > 300) =>
          RenderedMarker(RenderedPart(fmt.result.value, "description"),
                         fmt.payload.data.description, 300) = EscapedEllipsis
    /\ (IsCommentWithBody /\ Len(fmt.payload.data.body) > 200) =>
          RenderedMarker(RenderedPart(fmt.result.value, "body"),
                         fmt.payload.data.body, 200) = EscapedEllipsis

\* A Comment event that formatCommentMessage rendered.
IsRenderedComment ==
    /\ fmt.pc = "done"
    /\ fmt.payload.type = CommentType
    /\ ~FormatDispatch(fmt.payload, fmt.tz).threw

\* C16: the output for a Comment event always starts with the header "New
\* comment by <escaped actor name>"; the quoted comment body is appended iff
\* the action is create or update, and a remove action gives the header
\* line only.
C16_CommentRendering ==
    IsRenderedComment =>
        LET segs == fmt.result.value
            payload == fmt.payload
            header == <<":speech:">> \o <<" ", "N", "e", "w", " ", "c", "o", "m", "m", "e", "n", "t", " ", "b", "y", " ">>
                          \o escapeMarkdown(payload.actor.name) \o <<"\n">>
            body == RenderedPart(segs, "body")
        IN  /\ SegIndexes(segs, {"body"}) # {}
                   <=> payload.action \in {Create, Update}
            /\ Flatten(segs) =
                   (IF payload.action \in {Create, Update}
                    THEN header \o <<"\"">> \o body \o <<"\"", "\n">>
                    ELSE header)
            /\ (payload.action \in {Create, Update}
                    /\ Len(payload.data.body) <= CommentLimit)
               => body = escapeMarkdown(payload.data.body)

\* A removed comment that still carries a body was rendered as the header
\* line alone.
C16_Witness ==
    /\ IsRenderedComment
    /\ fmt.payload.action = Remove
    /\ fmt.payload.data.body = <<"a", "_", "b", ".", "c">>
    /\ Flatten(fmt.result.value) = <<":speech:">> \o <<" ", "N", "e", "w", " ", "c", "o", "m", "m", "e", "n", "t", " ", "b", "y", " ", "a", "\\", "_", "b", "\\", ".", "c", "\n">>

\* An event of another entity type than Issue, Comment and Project, with a
\* named actor.
IsGenericEvent ==
    /\ fmt.pc = "done"
    /\ fmt.payload.type \notin {IssueType, CommentType, ProjectType}
    /\ fmt.payload.actor.present
    /\ IsString(fmt.payload.actor.name)

\* The entity types of OtherTypes in lower case.
ExpectedLowerType(type) ==
    CASE type = <<"I", "s", "s", "u", "e", "L", "a", "b", "e", "l">> -> <<"i", "s", "s", "u", "e", "l", "a", "b", "e", "l">>
      [] type = <<"C", "y", "c", "l", "e">> -> <<"c", "y", "c", "l", "e">>
      [] type = <<"D", "o", "c", "u", "m", "e", "n", "t">> -> <<"d", "o", "c", "u", "m", "e", "n", "t">>

\* C17: an event whose entity type is not Issue, Comment or Project takes
\* the generic renderer, whatever its data contains: the result is exactly
\* one line naming the actor, the action and the lowercased entity type,
\* data is not read, and nothing is raised and no fallback text returned.
C17_GenericRendering ==
    IsGenericEvent =>
        LET payload == fmt.payload
            text == Flatten(fmt.result.value)
        IN  /\ ~fmt.result.threw
            /\ ~FormatDispatch(payload, fmt.tz).threw
            /\ FormatDispatch(payload, fmt.tz) = formatGenericMessage(payload)
            /\ \A k \in 1..Len(fmt.result.value) :
                   fmt.result.value[k].part # "fallback"
            /\ text = getEntityIcon(payload.type) \o <<" ">>
                          \o escapeMarkdown(payload.actor.name) \o <<" ">>
                          \o payload.action \o <<"d", " ", "a", " ">>
                          \o ExpectedLowerType(payload.type) \o <<"\n">>
            /\ {i \in 1..Len(text) : text[i] = "\n"} = {Len(text)}
            /\ fmt.result =
                   formatLinearWebhookMessage([payload EXCEPT !.data = NoData], fmt.tz)
            /\ fmt.result =
                   formatLinearWebhookMessage([payload EXCEPT !.data = DefaultIssue], fmt.tz)

\* An IssueLabel update that carries data was rendered on one line.
C17_Witness ==
    /\ IsGenericEvent
    /\ fmt.payload.data.present
    /\ Flatten(fmt.result.value) = <<":label:">> \o <<" ", "a", "\\", "_", "b", "\\", ".", "c", " ", "u", "p", "d", "a", "t", "e", "d", " ", "a", " ", "i", "s", "s", "u", "e", "l", "a", "b", "e", "l", "\n">>

\* "Mon D, YYYY" of a calendar date.
CalendarText(date) ==
    MonthShort[date.m] \o <<" ">> \o NumText(date.d) \o <<",", " ">>
        \o NumText(date.y)

\* C20: for an Issue event whose dueDate is a calendar date, the due-date
\* fragment "Due: Mon D, YYYY" names that same day, month and year for
\* every time-zone offset of the host, so the same event always gives the
\* same text.
C20_DueDateSameDay ==
    (IsRenderedIssue /\ fmt.payload.data.dueDate # <<>>) =>
        /\ RenderedPart(fmt.result.value, "due")
               = escapeMarkdown(CalendarText(fmt.payload.data.dueDate[1]))
        /\ \A tz \in TimeZones :
               formatLinearWebhookMessage(fmt.payload, tz) = fmt.result

\* What the handler does for request r when it runs at time now, taken
\* from the request's own header and body.
OwnOutcome(r, now) == webhookHandler(reqs[r].header, reqs[r].body, now)

\* The outcome of request r is the one its own header, body and clock
\* reading give, whatever the response to its send.
OutcomeIsOwn(r, now) ==
    \E own \in {OwnOutcome(r, now)} :
        /\ [reqs[r].out EXCEPT !.status = 0] = [own EXCEPT !.status = 0]
        /\ own.status # 0 => reqs[r].out.status = own.status
        /\ {m.text : m \in SendCalls(r)} =
               (IF own.sendIssued THEN {own.text} ELSE {})

\* C18: under any interleaving of concurrently handled requests, each
\* request's verification result, formatted text and response status depend
\* only on its own body, signature header and clock reading; no request
\* reads or writes state of another, so the rejection or failure of one
\* never changes the outcome of another.
C18_RequestsIndependent ==
    /\ [](\A r \in 1..NumRequests :
            Handled(r) => \E now \in ClockStart..clock : OutcomeIsOwn(r, now))
    /\ [][\A r \in 1..NumRequests :
            /\ Handles(r) => reqs'[r].out = OwnOutcome(r, clock)
            /\ reqs'[r] # reqs[r] =>
                  \A q \in 1..NumRequests \ {r} :
                      /\ reqs'[q] = reqs[q]
                      /\ {m \in telegram' : m.req = q} = {m \in telegram : m.req = q}
            /\ reqs[r].pc # "none" =>
                  reqs'[r].header = reqs[r].header /\ reqs'[r].body = reqs[r].body]_vars

\* Two requests with the same body and signature were in the handler
\* together; the one handled in time was sent and answered 200, the one
\* handled after the clock moved on was answered 401.
C18_Witness ==
    \E r1, r2 \in 1..NumRequests :
        /\ reqs[r1].body = <<1>>
        /\ reqs[r2].body = <<1>>
        /\ reqs[r1].header = reqs[r2].header
        /\ reqs[r1].out.status = 200
        /\ reqs[r2].out.status = 401
        /\ reqs[r2].out.stage = "timestamp"

\* C19: every request received by the handler eventually gets a response
\* (200, 401 or 500), provided its Telegram send eventually resolves or
\* rejects; no path leaves the request unanswered.
C19_EveryRequestAnswered ==
    \A r \in 1..NumRequests :
        reqs[r].pc = "received" ~>
            (reqs[r].pc = "responded" /\ reqs[r].out.status \in {200, 401, 500})

\* One request was answered after the formatter fell back and the fallback
\* text was sent, another after the formatter threw.
C19_Witness ==
    \E r1, r2 \in 1..NumRequests :
        /\ reqs[r1].pc = "responded"
        /\ reqs[r1].out.stage = "send"
        /\ reqs[r1].out.text[1] = ":x:"
        /\ reqs[r2].pc = "responded"
        /\ reqs[r2].out.stage = "format"
        /\ reqs[r2].out.status = 500

=============================================================================
